---------------------------- MODULE Spec2Model ----------------------------
(***************************************************************************)
(* A model of the text-to-SQL pipeline of core_fr.py: the prompt template, *)
(* the offline generator with its output extraction, the optional remote   *)
(* refinement, the fence stripper and text_to_sql, which sequences them.   *)
(*                                                                         *)
(* Python strings are sequences of one-character strings, so that strip,   *)
(* splitlines, split, join and startswith are computed character by        *)
(* character as the interpreter computes them.                             *)
(***************************************************************************)
EXTENDS Naturals, Sequences, FiniteSets

VARIABLES
    pc,          \* position of the current invocation of text_to_sql
    key,         \* os.getenv("OPENAI_API_KEY"): None, "" or a key
    weights,     \* the loaded language model: prompt text -> continuation
    request,     \* the argument of text_to_sql
    prompt,      \* local of text_to_sql: request.strip()
    draft,       \* local of text_to_sql: the generator's extracted output
    refined,     \* local of text_to_sql: what _refine_with_openai returned
    result,      \* the value text_to_sql returned, None while there is none
    raised,      \* where the exception leaving text_to_sql was raised
    absorbed,    \* the failure the except clause of the refiner caught
    resp,        \* the answer of the remote service in this invocation
    remoteCalls, \* chat-completion requests issued in this invocation
    calls,       \* invocations of text_to_sql started so far
    loads,       \* times the model and the tokenizer were loaded
    prev,        \* how the invocation before the current one ended
    stage,       \* position of the harness applying one pure function
    arg,         \* the string the pure function is applied to
    once,        \* the function applied to arg
    twice,       \* the function applied to once
    run_btn,     \* Text2SQLApp.run_btn.isEnabled()
    voice_btn,   \* Text2SQLApp.voice_btn.isEnabled()
    save_btn,    \* Text2SQLApp.save_btn.isEnabled()
    is_recording, \* Text2SQLApp.is_recording
    input_edit,  \* the text of Text2SQLApp.input_edit
    output_edit, \* the text of Text2SQLApp.output_edit
    status_lbl,  \* the text of Text2SQLApp.status_lbl
    dialog,      \* the title of the last message box shown
    sql_workers, \* the SQLWorker threads started, in order
    audio_workers, \* the ProcessAudioWorker threads started, in order
    queue,       \* signals emitted by workers, queued for the GUI thread
    recording,   \* AudioRecorder.recording
    stream,      \* AudioRecorder.stream: 0 for None, else the stream opened
    frames,      \* AudioRecorder.frames
    rec_pc,      \* position of the GUI thread in start() or stop()
    rec_threads, \* the _record threads started, in order
    closed,      \* the streams stop() has closed
    starts,      \* calls of start() so far
    reads,       \* the frames read since the most recent call of start()
    bad_read,    \* a _record thread read from a closed stream or from None
    returned     \* what the last stop() returned, and what had been read

vars == <<pc, key, weights, request, prompt, draft, refined, result, raised,
          absorbed, resp, remoteCalls, calls, loads, prev, stage, arg, once,
          twice, run_btn, voice_btn, save_btn, is_recording, input_edit,
          output_edit, status_lbl, dialog, sql_workers, audio_workers, queue,
          recording, stream, frames, rec_pc, rec_threads, closed, starts,
          reads, bad_read, returned>>

pipelineVars == <<pc, key, weights, request, prompt, draft, refined, result,
                  raised, absorbed, resp, remoteCalls, calls>>

harnessVars == <<stage, arg, once, twice>>

processVars == <<loads, prev>>

guiVars == <<run_btn, voice_btn, save_btn, is_recording, input_edit,
             output_edit, status_lbl, dialog, sql_workers, audio_workers,
             queue>>

recorderVars == <<recording, stream, frames, rec_pc, rec_threads, closed,
                  starts, reads, bad_read, returned>>

\* What the import of core_fr and text_to_sql leave alone.
outsideProcess == <<harnessVars, guiVars, recorderVars>>

\* What a step of text_to_sql leaves alone.
outsidePipeline == <<processVars, outsideProcess>>

\* What the application of a pure function leaves alone.
outsideHarness == <<pipelineVars, processVars, guiVars, recorderVars>>

\* What the desktop interface leaves alone.
outsideGui == <<pipelineVars, processVars, harnessVars, recorderVars>>

\* What the recorder leaves alone.
outsideRecorder == <<pipelineVars, processVars, harnessVars, guiVars>>

\* Python's None where a string may stand: a sequence that is no string,
\* its one element being no character.
None == <<"None">>

-----------------------------------------------------------------------------
(* Python string primitives *)

MinOf(S) == CHOOSE i \in S : \A j \in S : i <= j

MaxOf(S) == CHOOSE i \in S : \A j \in S : j <= i

\* The characters str.strip() removes, among those of the modelled alphabet.
Whitespace == {" ", "\t", "\n", "\r"}

\* The line boundaries of str.splitlines(), among those of the modelled
\* alphabet ("\r\n" counts as one boundary).
LineBreaks == {"\n", "\r"}

\* str.strip(): the text between the first and the last non-whitespace
\* character.
Strip(s) ==
    LET keep == {i \in 1..Len(s) : s[i] \notin Whitespace}
    IN  IF keep = {} THEN <<>> ELSE SubSeq(s, MinOf(keep), MaxOf(keep))

\* str.startswith(p)
StartsWith(s, p) == Len(s) >= Len(p) /\ SubSeq(s, 1, Len(p)) = p

\* str.find(sub, from): the first index >= from where sub occurs, 0 if none.
Find(s, sub, from) ==
    LET hits == {i \in from..(Len(s) + 1 - Len(sub)) :
                    SubSeq(s, i, i + Len(sub) - 1) = sub}
    IN  IF hits = {} THEN 0 ELSE MinOf(hits)

\* sub in s
Contains(s, sub) == Find(s, sub, 1) # 0

\* s.split(sep)[-1]: split scans left to right for non-overlapping
\* occurrences of sep; the last piece is what follows the last one it found.
RECURSIVE SplitLastFrom(_, _, _)
SplitLastFrom(s, sep, k) ==
    LET i == Find(s, sep, k)
    IN  IF i = 0 THEN SubSeq(s, k, Len(s))
        ELSE SplitLastFrom(s, sep, i + Len(sep))

SplitLast(s, sep) == SplitLastFrom(s, sep, 1)

\* str.splitlines(): the lines without their boundaries; a final boundary
\* opens no empty last line, and "" has no line.
RECURSIVE SplitLinesFrom(_, _, _)
SplitLinesFrom(s, start, i) ==
    IF i > Len(s)
    THEN IF start > Len(s) THEN <<>> ELSE <<SubSeq(s, start, Len(s))>>
    ELSE IF s[i] \in LineBreaks
         THEN LET n == IF s[i] = "\r" /\ i < Len(s) /\ s[i + 1] = "\n"
                       THEN i + 2 ELSE i + 1
              IN  <<SubSeq(s, start, i - 1)>> \o SplitLinesFrom(s, n, n)
         ELSE SplitLinesFrom(s, start, i + 1)

SplitLines(s) == SplitLinesFrom(s, 1, 1)

\* "\n".join(lines)
RECURSIVE Join(_)
Join(lines) ==
    IF lines = <<>> THEN <<>>
    ELSE IF Len(lines) = 1 THEN lines[1]
    ELSE lines[1] \o <<"\n">> \o Join(Tail(lines))

-----------------------------------------------------------------------------
(* 1. Offline generator *)

\* The f-string of generate, before the {request} placeholder (core_fr.py 33-47).
PromptHead ==
    <<"#","#","#"," ","S","Q","L"," ","G","e","n","e","r","a","t","i","o","n","\n","#"," ","S",
      "c","h","e","m","a",":","\n","#"," "," "," ","u","s","e","r","s","(","u","s","e","r","_",
      "i","d"," ","I","N","T",","," ","f","i","r","s","t","_","n","a","m","e"," ","V","A","R",
      "C","H","A","R",","," ","l","a","s","t","_","n","a","m","e"," ","V","A","R","C","H","A",
      "R",","," ","e","m","a","i","l"," ","V","A","R","C","H","A","R",","," ","s","i","g","n",
      "u","p","_","d","a","t","e"," ","D","A","T","E",")","\n","#"," "," "," ","o","r","d","e",
      "r","s","(","o","r","d","e","r","_","i","d"," ","I","N","T",","," ","u","s","e","r","_",
      "i","d"," ","I","N","T",","," ","o","r","d","e","r","_","t","o","t","a","l"," ","F","L",
      "O","A","T",","," ","o","r","d","e","r","_","d","a","t","e"," ","D","A","T","E",")","\n",
      "#"," "," "," ","p","r","o","d","u","c","t","s","(","p","r","o","d","u","c","t","_","i",
      "d"," ","I","N","T",","," ","n","a","m","e"," ","V","A","R","C","H","A","R",","," ","p",
      "r","i","c","e"," ","F","L","O","A","T",")","\n","\n","#"," ","E","x","a","m","p","l","e",
      "s",":","\n","#"," ","I","n","p","u","t",":"," ","F","i","n","d"," ","t","o","t","a","l",
      " ","n","u","m","b","e","r"," ","o","f"," ","o","r","d","e","r","s"," ","p","l","a","c",
      "e","d"," ","b","y"," ","e","a","c","h"," ","u","s","e","r",".","\n","#"," ","O","u","t",
      "p","u","t",":"," ","S","E","L","E","C","T"," ","u",".","f","i","r","s","t","_","n","a",
      "m","e",","," ","u",".","l","a","s","t","_","n","a","m","e",","," ","C","O","U","N","T",
      "(","o",".","o","r","d","e","r","_","i","d",")"," ","A","S"," ","t","o","t","a","l","_",
      "o","r","d","e","r","s"," ","F","R","O","M"," ","u","s","e","r","s"," ","u"," ","J","O",
      "I","N"," ","o","r","d","e","r","s"," ","o"," ","O","N"," ","u",".","u","s","e","r","_",
      "i","d"," ","="," ","o",".","u","s","e","r","_","i","d"," ","G","R","O","U","P"," ","B",
      "Y"," ","u",".","u","s","e","r","_","i","d",";","\n","\n","#"," ","I","n","p","u","t",":",
      " ","C","r","e","a","t","e"," ","a"," ","t","a","b","l","e"," ","o","f"," ","e","m","p",
      "l","o","y","e","e","s"," ","w","i","t","h"," ","c","o","l","u","m","n","s"," ","e","m",
      "p","_","i","d",","," ","e","m","p","_","n","a","m","e",","," ","e","m","p","_","a","d",
      "d","r","e","s","s",".","\n","#"," ","O","u","t","p","u","t",":"," ","C","R","E","A","T",
      "E"," ","T","A","B","L","E"," ","e","m","p","l","o","y","e","e","s"," ","(","e","m","p",
      "_","i","d"," ","I","N","T",","," ","e","m","p","_","n","a","m","e"," ","V","A","R","C",
      "H","A","R","(","2","5","5",")",","," ","e","m","p","_","a","d","d","r","e","s","s"," ",
      "V","A","R","C","H","A","R","(","2","5","5",")",")",";","\n","\n","#"," ","N","o","w"," ",
      "y","o","u","r"," ","r","e","q","u","e","s","t",":","\n","#"," ","I","n","p","u","t",":",
      " ">>

\* The f-string of generate, after the {request} placeholder (core_fr.py 47-48).
PromptTail ==
    <<"\n","#"," ","O","u","t","p","u","t",":">>

\* The marker generate splits the generated text on (core_fr.py 51).
OutputMarker ==
    <<"#"," ","O","u","t","p","u","t",":">>

\* What a residual prompt line starts with (core_fr.py 52).
CommentMark == <<"#">>

\* The prompt generate builds around the request.
Prompt(req) == PromptHead \o req \o PromptTail

\* self.pipe(prompt)[0]["generated_text"]: the prompt followed by the
\* continuation the loaded model gives it (greedy decoding: a function).
Pipe(w, p) == p \o w[p]

\* not l.strip().startswith("#")
NotComment(l) == ~StartsWith(Strip(l), CommentMark)

\* Extract keeping what follows the FIRST marker: split(...)[1] for [-1].
ExtractAfterFirst(out) ==
    LET i == Find(out, OutputMarker, 1)
        sql_part == IF i # 0
                    THEN SubSeq(out, i + Len(OutputMarker), Len(out)) ELSE out
        lines == SelectSeq(SplitLines(sql_part), NotComment)
    IN  Strip(Join(lines))

\* The extraction of generate: the text after the last marker, or all of it,
\* without its comment lines, joined and stripped.
Extract(out) ==
    LET sql_part == IF Contains(out, OutputMarker)
                    THEN SplitLast(out, OutputMarker) ELSE out
        lines == SelectSeq(SplitLines(sql_part), NotComment)
    IN  Strip(Join(lines))

\* SQLGenerator.generate(request)
generate(w, req) == Extract(Pipe(w, Prompt(req)))

-----------------------------------------------------------------------------
(* 2. Optional OpenAI refinement *)

\* "if not key": None and "" both mean that no credential is configured.
NoCredential(k) == k = None \/ k = <<>>

\* refine_answer falling back to the draft when the answer is empty:
\* "content.strip() or draft_sql".
refine_answer_or_draft(answer, draft_sql) ==
    IF answer[1] = "text" /\ Strip(answer[2]) # <<>>
    THEN Strip(answer[2]) ELSE draft_sql

\* What the try block of _refine_with_openai returns for an answer of the
\* remote service. <<"text", t>>: choices[0].message.content is t;
\* <<"error">>: create raised (network, authentication, timeout);
\* <<"no_choices">>: choices is empty, choices[0] raises IndexError;
\* <<"no_content">>: content is None, None.strip() raises AttributeError.
\* Every exception lands in "except Exception", which returns the draft.
refine_answer(answer, draft_sql) ==
    IF answer[1] = "text" THEN Strip(answer[2]) ELSE draft_sql

-----------------------------------------------------------------------------
(* 3. Strip code fences if present *)

\* The character U+0060, which a TLA+ string literal cannot hold.
Backtick == "BACKTICK"

\* The triple-backtick marker _strip_fence looks for.
Fence == <<Backtick, Backtick, Backtick>>

\* strip_fence dropping the last line without looking at it.
strip_fence_drop_last(text) ==
    LET t == Strip(text)
    IN  IF StartsWith(t, Fence)
        THEN LET all == SplitLines(t)
                 lines == SubSeq(all, 2, Len(all))
             IN  Strip(Join(SubSeq(lines, 1, Len(lines) - 1)))
        ELSE t

\* strip_fence dropping a closing fence line whether or not the text opens
\* with a fence.
strip_fence_any_close(text) ==
    LET t == Strip(text)
        all == SplitLines(t)
        lines == IF StartsWith(t, Fence) THEN SubSeq(all, 2, Len(all)) ELSE all
        kept == IF lines # <<>>
                   /\ StartsWith(Strip(lines[Len(lines)]), Fence)
                THEN SubSeq(lines, 1, Len(lines) - 1)
                ELSE lines
    IN  IF StartsWith(t, Fence) \/ kept # lines THEN Strip(Join(kept)) ELSE t

\* _strip_fence(text)
strip_fence(text) ==
    LET t == Strip(text)
    IN  IF StartsWith(t, Fence)
        THEN LET all == SplitLines(t)
                 lines == SubSeq(all, 2, Len(all))
                 kept == IF lines # <<>>
                            /\ StartsWith(Strip(lines[Len(lines)]), Fence)
                         THEN SubSeq(lines, 1, Len(lines) - 1)
                         ELSE lines
             IN  Strip(Join(kept))
        ELSE t

-----------------------------------------------------------------------------
(* Bounds and the inputs drawn from them *)

\* Invocations of text_to_sql in one run of the process.
MaxCalls == 2

\* Pieces a text given to a pure function is made of.
MaxPieces == 5

\* The texts made of at most n pieces of P.
RECURSIVE TextsOf(_, _)
TextsOf(P, n) ==
    IF n = 0 THEN {<<>>}
    ELSE LET S == TextsOf(P, n - 1)
         IN  S \cup {s \o p : s \in S, p \in P}

\* Requests: plain, with outer whitespace, and whitespace only.
Requests == {<<"x">>, <<" ", "x", "\n">>, <<" ">>}

\* The prompts the model may be given: of a request as passed and as stripped.
Prompts == {Prompt(r) : r \in Requests} \cup {Prompt(Strip(r)) : r \in Requests}

FencedCount ==
    <<Backtick,Backtick,Backtick,"s","q","l","\n","S","E","L","E","C","T"," ","C","O","U","N","T","(","*",")",
      " ","F","R","O","M"," ","o","r","d","e","r","s",";","\n",Backtick,Backtick,Backtick>>

CountOrders ==
    <<"S","E","L","E","C","T"," ","C","O","U","N","T","(","*",")"," ","F","R","O","M"," ","o",
      "r","d","e","r","s",";">>

\* Continuations of the model: a statement, a fenced statement on its own
\* lines, nothing, and a statement followed by a further example pair.
Continuations ==
    { <<" ", "a", ";">>,
      <<"\n">> \o FencedCount,
      <<>>,
      <<" ", "b", "\n", "#", " ", "I", "n", "p", "u", "t", ":", " ", "y", "\n">>
          \o OutputMarker \o <<" ", "c">> }

\* os.getenv("OPENAI_API_KEY")
KeyValues == {None, <<>>, <<"s", "k">>}

\* Response texts of the remote service: a statement with outer whitespace,
\* a fenced statement, the empty text, and a refusal.
Answers ==
    { <<" ", "r", ";", "\n">>,
      <<Backtick, Backtick, Backtick, "\n", "r", ";", "\n", Backtick, Backtick, Backtick>>,
      <<>>,
      <<"n", "o">> }

\* No request was issued.
NoAnswer == <<"no_call">>

RemoteAnswers ==
    {<<"text", t>> : t \in Answers}
        \cup {<<"error">>, <<"no_choices">>, <<"no_content">>}

-----------------------------------------------------------------------------
(* 4. text_to_sql, step by step *)

Finished == pc \in {"returned", "raised"}

\* Call passing the request on as it came: the strip of line 111 forgotten.
CallVerbatim(r) ==
    /\ pc \in {"idle", "returned", "raised"}
    /\ calls < MaxCalls
    /\ calls' = calls + 1
    /\ request' = r
    /\ prompt' = r
    /\ draft' = None
    /\ refined' = None
    /\ result' = None
    /\ raised' = "none"
    /\ absorbed' = "none"
    /\ resp' = NoAnswer
    /\ remoteCalls' = 0
    /\ pc' = "generate"
    /\ UNCHANGED <<key, weights>>

\* Call with the prompt kept in a global that only the first invocation sets.
CallStalePrompt(r) ==
    /\ pc \in {"idle", "returned", "raised"}
    /\ calls < MaxCalls
    /\ calls' = calls + 1
    /\ request' = r
    /\ prompt' = IF prompt = None THEN Strip(r) ELSE prompt
    /\ draft' = None
    /\ refined' = None
    /\ result' = None
    /\ raised' = "none"
    /\ absorbed' = "none"
    /\ resp' = NoAnswer
    /\ remoteCalls' = 0
    /\ pc' = "generate"
    /\ UNCHANGED <<key, weights>>

\* text_to_sql(request) is entered: prompt = request.strip()
Call(r) ==
    /\ pc \in {"idle", "returned", "raised"}
    /\ calls < MaxCalls
    /\ calls' = calls + 1
    /\ request' = r
    /\ prompt' = Strip(r)
    /\ draft' = None
    /\ refined' = None
    /\ result' = None
    /\ raised' = "none"
    /\ absorbed' = "none"
    /\ resp' = NoAnswer
    /\ remoteCalls' = 0
    /\ pc' = "generate"
    /\ UNCHANGED <<key, weights>>

\* draft = _generator.generate(prompt) returns
GenerateReturn ==
    /\ pc = "generate"
    /\ draft' = generate(weights, prompt)
    /\ pc' = "refine"
    /\ UNCHANGED <<key, weights, request, prompt, refined, result, raised,
                   absorbed, resp, remoteCalls, calls>>

\* GenerateRaise with the exception caught and an empty draft passed on.
GenerateRaiseCaught ==
    /\ pc = "generate"
    /\ raised' = "generate"
    /\ draft' = <<>>
    /\ pc' = "refine"
    /\ UNCHANGED <<key, weights, request, prompt, refined, result,
                   absorbed, resp, remoteCalls, calls>>

\* _generator.generate(prompt) raises: text_to_sql has no handler
GenerateRaise ==
    /\ pc = "generate"
    /\ raised' = "generate"
    /\ pc' = "raised"
    /\ UNCHANGED <<key, weights, request, prompt, draft, refined, result,
                   absorbed, resp, remoteCalls, calls>>

\* _refine_with_openai: no key in the environment, the draft is returned
RefineOffline ==
    /\ pc = "refine"
    /\ NoCredential(key)
    /\ refined' = draft
    /\ pc' = "strip"
    /\ UNCHANGED <<key, weights, request, prompt, draft, result, raised,
                   absorbed, resp, remoteCalls, calls>>

\* _refine_with_openai: "from openai import OpenAI" and OpenAI(api_key=key)
\* succeed
ClientReady ==
    /\ pc = "refine"
    /\ ~NoCredential(key)
    /\ pc' = "remote"
    /\ UNCHANGED <<key, weights, request, prompt, draft, refined, result,
                   raised, absorbed, resp, remoteCalls, calls>>

\* _refine_with_openai: the import or the constructor raises; both stand
\* before the try block, so the exception leaves text_to_sql
ClientRaise ==
    /\ pc = "refine"
    /\ ~NoCredential(key)
    /\ raised' = "client"
    /\ pc' = "raised"
    /\ UNCHANGED <<key, weights, request, prompt, draft, refined, result,
                   absorbed, resp, remoteCalls, calls>>

\* RemoteCall issuing the request again after a failure.
RemoteCallRetry(answer) ==
    /\ pc = "remote"
    /\ remoteCalls' = remoteCalls + 1
    /\ resp' = answer
    /\ absorbed' = IF answer[1] = "text" THEN "none" ELSE answer[1]
    /\ refined' = refine_answer(answer, draft)
    /\ pc' = IF answer[1] = "text" THEN "strip" ELSE "remote"
    /\ UNCHANGED <<key, weights, request, prompt, draft, result, raised,
                   calls>>

\* _refine_with_openai: the try block, one client.chat.completions.create
RemoteCall(answer) ==
    /\ pc = "remote"
    /\ remoteCalls' = remoteCalls + 1
    /\ resp' = answer
    /\ absorbed' = IF answer[1] = "text" THEN "none" ELSE answer[1]
    /\ refined' = refine_answer(answer, draft)
    /\ pc' = "strip"
    /\ UNCHANGED <<key, weights, request, prompt, draft, result, raised,
                   calls>>

\* return _strip_fence(refined)
StripReturn ==
    /\ pc = "strip"
    /\ result' = strip_fence(refined)
    /\ pc' = "returned"
    /\ UNCHANGED <<key, weights, request, prompt, draft, refined, raised,
                   absorbed, resp, remoteCalls, calls>>

HarnessOff ==
    stage = "off" /\ arg = None /\ once = None /\ twice = None

PipelineOff ==
    /\ pc = "off" /\ key = None /\ weights = <<>> /\ request = None
    /\ prompt = None /\ draft = None /\ refined = None /\ result = None
    /\ raised = "none" /\ absorbed = "none" /\ resp = NoAnswer /\ remoteCalls = 0
    /\ calls = 0

ProcessOff == loads = 0 /\ prev = "none"

GuiOff ==
    /\ run_btn = FALSE /\ voice_btn = FALSE /\ save_btn = FALSE
    /\ is_recording = FALSE
    /\ input_edit = None /\ output_edit = None
    /\ status_lbl = "none" /\ dialog = "none"
    /\ sql_workers = <<>> /\ audio_workers = <<>> /\ queue = <<>>

\* The result of stop() while it has not returned.
NoAudio == [audio |-> None, read |-> None]

RecorderOff ==
    /\ recording = FALSE /\ stream = 0 /\ frames = <<>> /\ rec_pc = "off"
    /\ rec_threads = <<>> /\ closed = {} /\ starts = 0 /\ reads = <<>>
    /\ bad_read = FALSE /\ returned = NoAudio

\* The process after "_generator = SQLGenerator()": a model is loaded, the
\* environment is what it is, text_to_sql has not been called.
Init ==
    /\ pc = "idle"
    /\ key \in KeyValues
    /\ weights \in [Prompts -> Continuations]
    /\ request = None /\ prompt = None /\ draft = None /\ refined = None
    /\ result = None /\ raised = "none" /\ absorbed = "none" /\ resp = NoAnswer
    /\ remoteCalls = 0
    /\ calls = 0
    /\ loads = 1
    /\ prev = "none"
    /\ HarnessOff
    /\ GuiOff
    /\ RecorderOff

Next ==
    \/ (\E r \in Requests : Call(r)) /\ UNCHANGED outsidePipeline
    \/ GenerateReturn /\ UNCHANGED outsidePipeline
    \/ GenerateRaise /\ UNCHANGED outsidePipeline
    \/ RefineOffline /\ UNCHANGED outsidePipeline
    \/ ClientReady /\ UNCHANGED outsidePipeline
    \/ ClientRaise /\ UNCHANGED outsidePipeline
    \/ (\E a \in RemoteAnswers : RemoteCall(a)) /\ UNCHANGED outsidePipeline
    \/ StripReturn /\ UNCHANGED outsidePipeline

Spec == Init /\ [][Next]_vars

-----------------------------------------------------------------------------
(* The pure functions applied to bounded inputs *)

\* Pieces of the texts given to _strip_fence.
FencePieces == {Fence, <<"\n">>, <<"\r">>, <<" ">>, <<"x">>}

FenceTexts == TextsOf(FencePieces, MaxPieces) \cup {FencedCount}

TrailingComment ==
    <<"#"," ","O","u","t","p","u","t",":","\n","S","E","L","E","C","T"," ","1",";","\n","#"," ",
      "t","r","a","i","l","i","n","g"," ","c","o","m","m","e","n","t">>

SelectOne ==
    <<"S","E","L","E","C","T"," ","1",";">>

\* Pieces of the generated texts given to the extraction of generate.
ExtractPieces == {OutputMarker, <<"#">>, <<"\n">>, <<"\r">>, <<" ">>, <<"x">>}

ExtractTexts == TextsOf(ExtractPieces, MaxPieces) \cup {TrailingComment}

InitFence ==
    /\ PipelineOff
    /\ ProcessOff
    /\ GuiOff
    /\ RecorderOff
    /\ stage = "input"
    /\ arg \in FenceTexts
    /\ once = None
    /\ twice = None

\* _strip_fence(arg)
FenceOnce ==
    /\ stage = "input"
    /\ once' = strip_fence(arg)
    /\ stage' = "once"
    /\ UNCHANGED <<arg, twice>>

\* _strip_fence(_strip_fence(arg))
FenceTwice ==
    /\ stage = "once"
    /\ twice' = strip_fence(once)
    /\ stage' = "twice"
    /\ UNCHANGED <<arg, once>>

NextFence ==
    \/ FenceOnce /\ UNCHANGED outsideHarness
    \/ FenceTwice /\ UNCHANGED outsideHarness

SpecFence == InitFence /\ [][NextFence]_vars

InitExtract ==
    /\ PipelineOff
    /\ ProcessOff
    /\ GuiOff
    /\ RecorderOff
    /\ stage = "input"
    /\ arg \in ExtractTexts
    /\ once = None
    /\ twice = None

\* The extraction of generate applied to the generated text arg
ExtractOnce ==
    /\ stage = "input"
    /\ once' = Extract(arg)
    /\ stage' = "once"
    /\ UNCHANGED <<arg, twice>>

NextExtract == ExtractOnce /\ UNCHANGED outsideHarness

SpecExtract == InitExtract /\ [][NextExtract]_vars

-----------------------------------------------------------------------------
(* Properties of _strip_fence, under SpecFence *)

\* The trimmed text opens with a fence.
Fenced(x) == StartsWith(Strip(x), Fence)

\* A line that is a fence marker: its trimmed content starts with the
\* triple backtick (a bare marker, or one followed by a tag).
IsFenceLine(l) == StartsWith(Strip(l), Fence)

\* y is x without outer whitespace: a stretch of x that neither starts nor
\* ends with whitespace, with nothing but whitespace before and after it.
IsOuterTrim(x, y) ==
    \E i \in 1..(Len(x) + 1) : \E j \in 0..Len(x) :
        /\ y = SubSeq(x, i, j)
        /\ \A k \in 1..(i - 1) : x[k] \in Whitespace
        /\ \A k \in (j + 1)..Len(x) : x[k] \in Whitespace
        /\ y # <<>> => y[1] \notin Whitespace /\ y[Len(y)] \notin Whitespace

\* C3: _strip_fence is idempotent: applying it to its own result changes
\* nothing, for every string.
C3_Idempotent == stage = "twice" => twice = once

\* The lines of the trimmed text a fenced input keeps: all but the first,
\* and but the last when that is a fence marker.
InteriorLines(x) ==
    LET L == SplitLines(Strip(x))
        n == Len(L)
        m == IF n >= 2 /\ IsFenceLine(L[n]) THEN n - 2 ELSE n - 1
    IN  [i \in 1..m |-> L[i + 1]]

\* C7: on a fenced input _strip_fence returns the lines of the trimmed text
\* without the first one and without the last one exactly when that is a
\* closing fence marker, joined in order and trimmed; the fenced COUNT
\* statement yields the bare statement.
C7_FencedInterior ==
    stage # "input" /\ Fenced(arg) =>
        /\ once = Strip(Join(InteriorLines(arg)))
        /\ arg = FencedCount => once = CountOrders

\* A fenced text whose last line is no fence marker: that line is kept.
C7_Witness ==
    /\ stage = "once"
    /\ arg = Fence \o <<"x", "\n", " ", "x">>
    /\ once = <<"x">>

\* C8: on an unfenced input _strip_fence returns the input without its outer
\* whitespace and changes nothing inside, fence lines further on included.
C8_UnfencedTrimmed ==
    stage # "input" /\ ~Fenced(arg) => IsOuterTrim(arg, once)

\* An unfenced text with a fence line after its first line.
C8_Witness ==
    /\ stage = "once"
    /\ arg = <<" ", "x", "\n">> \o Fence \o <<"\n">>
    /\ once = <<"x", "\n">> \o Fence

-----------------------------------------------------------------------------
(* Properties of the extraction of generate, under SpecExtract *)

\* A line whose trimmed content begins with "#": nothing but whitespace
\* stands before its first "#".
IsCommentLine(l) ==
    \E i \in 1..Len(l) :
        l[i] = "#" /\ \A k \in 1..(i - 1) : l[k] \in Whitespace

NoCommentLine(l) == ~IsCommentLine(l)

\* The text after the last place where the marker stands, or the whole text.
AfterLastMarker(x) ==
    LET n == Len(OutputMarker)
        at == {i \in 1..(Len(x) + 1 - n) : SubSeq(x, i, i + n - 1) = OutputMarker}
    IN  IF at = {} THEN x ELSE SubSeq(x, MaxOf(at) + n, Len(x))

\* C6: the draft is the text after the last "# Output:" (the whole text when
\* there is none) without the lines whose trimmed content begins with "#",
\* the others joined in order, trimmed; it has no such line itself, and the
\* marker, "SELECT 1;" and a trailing comment give "SELECT 1;".
C6_Extracted ==
    stage = "once" =>
        /\ once = Strip(Join(SelectSeq(SplitLines(AfterLastMarker(arg)),
                                       NoCommentLine)))
        /\ \A i \in 1..Len(SplitLines(once)) : NoCommentLine(SplitLines(once)[i])
        /\ arg = TrailingComment => once = SelectOne

\* A generated text with two markers: what follows the second one is kept.
C6_Witness ==
    /\ stage = "once"
    /\ arg = OutputMarker \o <<"x", "\n">> \o OutputMarker \o <<" ">>
    /\ once = <<>>

-----------------------------------------------------------------------------
(* Properties of text_to_sql, under Spec *)

\* A failure of the refinement stage after the credential was found.
RefineFailed == raised = "client" \/ absorbed # "none"

\* C1: a failure of the refinement stage at any of its steps, once a
\* credential was found, is absorbed: text_to_sql returns what it returns for
\* the same draft without a credential.
C1_RefineFailureAbsorbed ==
    Finished /\ RefineFailed => pc = "returned" /\ result = strip_fence(draft)

\* C2: when the offline generator returned, text_to_sql ends by returning a
\* string, whatever the credential and the answer of the remote service: it
\* never raises and never returns None.
C2_ReturnsString ==
    Finished /\ draft # None =>
        pc = "returned" /\ raised = "none" /\ result # None

\* C4, as stated: without a credential the result is the fence-stripped
\* extraction of what the model generates for the prompt built around the
\* request as the caller passed it, and no request is issued.
C4_OfflineVerbatim ==
    pc = "returned" /\ NoCredential(key) =>
        /\ result = strip_fence(Extract(Pipe(weights, Prompt(request))))
        /\ remoteCalls = 0

\* C4, amended: without a credential the result is the fence-stripped
\* extraction of what the model generates for the prompt built around the
\* trimmed request, and no request is issued.
C4_OfflineStripped ==
    pc = "returned" /\ NoCredential(key) =>
        /\ result = strip_fence(Extract(Pipe(weights, Prompt(Strip(request)))))
        /\ remoteCalls = 0

\* A request with outer whitespace for which the model continues the prompt
\* of the trimmed request otherwise than that of the request as passed.
C4_Witness ==
    /\ pc = "returned"
    /\ NoCredential(key)
    /\ request # Strip(request)
    /\ result # strip_fence(Extract(Pipe(weights, Prompt(request))))

\* C5, as stated: at most one request per invocation, none without a
\* credential and exactly one with one.
C5_OneIffCredential ==
    /\ remoteCalls <= 1
    /\ Finished => remoteCalls = IF NoCredential(key) THEN 0 ELSE 1

\* C5, amended: at most one request per invocation; none without a
\* credential and none when the invocation raises (the generator, or the
\* preparation of the client); exactly one when a credential is configured
\* and text_to_sql returns, the request having failed or not.
C5_OneIffRefined ==
    /\ remoteCalls <= 1
    /\ Finished =>
          remoteCalls = IF ~NoCredential(key) /\ pc = "returned" THEN 1 ELSE 0

\* A failed request, after which text_to_sql returned: it was not retried.
C5_Witness ==
    /\ pc = "returned"
    /\ absorbed = "error"
    /\ remoteCalls = 1

\* C9: when the generator raises, text_to_sql raises: it returns nothing,
\* the refinement stage is not entered and no request is issued.
C9_GeneratorRaisePropagates ==
    raised = "generate" =>
        /\ pc = "raised"
        /\ result = None
        /\ draft = None /\ refined = None
        /\ resp = NoAnswer /\ remoteCalls = 0

\* The generator raised with a credential configured.
C9_Witness ==
    /\ pc = "raised"
    /\ raised = "generate"
    /\ ~NoCredential(key)

\* C10: with a credential and a text in the answer, the refiner returns
\* that text trimmed whatever the draft, and text_to_sql returns it without
\* its fences; an empty text is returned as it is, not the draft.
C10_AnswerPassedThrough ==
    pc \in {"strip", "returned"} /\ resp[1] = "text" =>
        /\ ~NoCredential(key)
        /\ refined = Strip(resp[2])
        /\ pc = "returned" => result = strip_fence(Strip(resp[2]))

\* An empty answer for a draft that is not empty: the result is empty.
C10_Witness ==
    /\ pc = "returned"
    /\ resp = <<"text", <<>>>>
    /\ draft # <<>>
    /\ result = <<>>

-----------------------------------------------------------------------------
(* The process from the import of core_fr on: the module-level            *)
(* "_generator = SQLGenerator()", then invocations of text_to_sql          *)

InitProcess ==
    /\ pc = "import"
    /\ key \in KeyValues
    /\ weights = <<>>
    /\ request = None /\ prompt = None /\ draft = None /\ refined = None
    /\ result = None /\ raised = "none" /\ absorbed = "none" /\ resp = NoAnswer
    /\ remoteCalls = 0
    /\ calls = 0
    /\ loads = 0
    /\ prev = "none"
    /\ HarnessOff
    /\ GuiOff
    /\ RecorderOff

\* SQLGenerator.__init__ returns: tokenizer, model and pipeline are built
\* and bound to the global _generator; the module defines text_to_sql.
LoadModel ==
    /\ pc = "import"
    /\ weights' \in [Prompts -> Continuations]
    /\ loads' = loads + 1
    /\ pc' = "idle"
    /\ UNCHANGED <<key, request, prompt, draft, refined, result, raised,
                   absorbed, resp, remoteCalls, calls, prev, outsideProcess>>

\* LoadFail with the failure swallowed and the module usable without a model.
LoadFailDegraded ==
    /\ pc = "import"
    /\ weights' = [p \in Prompts |-> <<>>]
    /\ pc' = "idle"
    /\ UNCHANGED <<key, request, prompt, draft, refined, result, raised,
                   absorbed, resp, remoteCalls, calls, processVars,
                   outsideProcess>>

\* SQLGenerator.__init__ raises (from_pretrained fails): the import of the
\* module raises, text_to_sql is never defined and the program ends.
LoadFail ==
    /\ pc = "import"
    /\ pc' = "exited"
    /\ UNCHANGED <<key, weights, request, prompt, draft, refined, result,
                   raised, absorbed, resp, remoteCalls, calls, processVars,
                   outsideProcess>>

\* How the invocation that is over ended: it raised, it returned after an
\* absorbed refinement failure, or it returned.
LastOutcome ==
    IF pc = "raised" THEN "raised"
    ELSE IF pc = "returned"
         THEN IF absorbed # "none" THEN "degraded" ELSE "returned"
         ELSE "none"

NextProcess ==
    \/ LoadModel
    \/ LoadFail
    \/ (\E r \in Requests : Call(r))
          /\ prev' = LastOutcome /\ UNCHANGED <<loads, outsideProcess>>
    \/ GenerateReturn /\ UNCHANGED outsidePipeline
    \/ GenerateRaise /\ UNCHANGED outsidePipeline
    \/ RefineOffline /\ UNCHANGED outsidePipeline
    \/ ClientReady /\ UNCHANGED outsidePipeline
    \/ ClientRaise /\ UNCHANGED outsidePipeline
    \/ (\E a \in RemoteAnswers : RemoteCall(a)) /\ UNCHANGED outsidePipeline
    \/ StripReturn /\ UNCHANGED outsidePipeline

SpecProcess == InitProcess /\ [][NextProcess]_vars

-----------------------------------------------------------------------------
(* Properties of the process, under SpecProcess *)

\* C11: the model and the tokenizer are loaded exactly once, before the
\* first invocation of text_to_sql can start, and are never loaded again or
\* dropped; when the load fails, no invocation ever runs.
C11_LoadedOnce ==
    /\ [](/\ loads <= 1
          /\ pc \notin {"import", "exited"} => loads = 1
          /\ calls > 0 => loads = 1
          /\ pc = "exited" => loads = 0 /\ calls = 0)
    /\ [][/\ loads = 1 => loads' = 1 /\ weights' = weights
          /\ pc = "exited" => pc' = "exited"]_vars

\* A second invocation has returned, on the one load of the start.
C11_Witness ==
    /\ calls = 2
    /\ pc = "returned"
    /\ loads = 1

\* What text_to_sql returns, as a function of the request, the credential,
\* the loaded model and the answer of the remote service.
FinalSQL(req, k, w, answer) ==
    LET d == generate(w, Strip(req))
    IN  strip_fence(IF NoCredential(k) THEN d ELSE refine_answer(answer, d))

\* C12: invocations keep no state between them: what text_to_sql returns is
\* fixed by its request, the credential and the answers of the model and of
\* the remote service, whatever invocations ran before.
C12_NoStateBetweenCalls ==
    pc = "returned" => result = FinalSQL(request, key, weights, resp)

\* An invocation that returned after one that raised.
C12_Witness ==
    /\ pc = "returned"
    /\ calls = 2
    /\ prev = "raised"

-----------------------------------------------------------------------------
(* The desktop interface of gui_fr.py: the window's widgets, the worker    *)
(* threads it starts, and the signals they queue for the GUI thread. A     *)
(* click handler or a slot runs to its end on the GUI thread; a disabled   *)
(* button emits no click.                                                  *)

\* SQLWorker threads started in one run of the window.
MaxSqlWorkers == 2

\* Recordings made, each ending in one ProcessAudioWorker thread.
MaxAudioWorkers == 2

\* What the user may type into input_edit.
TypedInputs == {<<" ">>, <<"q">>}

\* What recognize_google may return.
Transcripts == {<<"q">>}

\* What text_to_sql may return.
SqlResults == {<<"s">>, <<>>}

\* str(e) of an exception.
ErrorTexts == {<<"e">>}

\* Text2SQLApp.__init__: buttons enabled, fields empty, no worker.
InitGui ==
    /\ PipelineOff
    /\ ProcessOff
    /\ HarnessOff
    /\ RecorderOff
    /\ run_btn = TRUE /\ voice_btn = TRUE /\ save_btn = TRUE
    /\ is_recording = FALSE
    /\ input_edit = <<>>
    /\ output_edit = <<>>
    /\ status_lbl = "Ready"
    /\ dialog = "none"
    /\ sql_workers = <<>>
    /\ audio_workers = <<>>
    /\ queue = <<>>

\* _set_busy_sql(msg)
set_busy_sql(msg) ==
    /\ run_btn' = FALSE
    /\ voice_btn' = FALSE
    /\ save_btn' = FALSE
    /\ status_lbl' = msg

\* _set_busy_rec(msg)
set_busy_rec(msg) ==
    /\ run_btn' = FALSE
    /\ save_btn' = FALSE
    /\ status_lbl' = msg
    /\ UNCHANGED voice_btn

\* _set_ready(error)
set_ready(error) ==
    /\ run_btn' = TRUE
    /\ voice_btn' = TRUE
    /\ save_btn' = TRUE
    /\ status_lbl' = IF error THEN "Error." ELSE "Done."

\* The user edits the prompt field.
TypeInput(t) ==
    /\ t # input_edit
    /\ input_edit' = t
    /\ UNCHANGED <<run_btn, voice_btn, save_btn, is_recording, output_edit,
                   status_lbl, dialog, sql_workers, audio_workers, queue>>

\* on_convert, clicked on the enabled run_btn
on_convert ==
    /\ run_btn
    /\ LET prompt_text == Strip(input_edit)
       IN  IF prompt_text = <<>>
           THEN /\ dialog' = "Input Required"
                /\ UNCHANGED <<run_btn, voice_btn, save_btn, status_lbl,
                               sql_workers>>
           ELSE /\ Len(sql_workers) < MaxSqlWorkers
                /\ set_busy_sql("Generating SQL")
                /\ sql_workers' = Append(sql_workers,
                       [st |-> "running", prompt |-> prompt_text, emits |-> 0])
                /\ UNCHANGED dialog
    /\ UNCHANGED <<is_recording, input_edit, output_edit, audio_workers, queue>>

\* SQLWorker.run: text_to_sql returns sql, finished is emitted
sql_run_finished(i, sql) ==
    /\ i \in DOMAIN sql_workers
    /\ sql_workers[i].st = "running"
    /\ sql_workers' = [sql_workers EXCEPT ![i].st = "emitted",
                                          ![i].emits = @ + 1]
    /\ queue' = Append(queue, [kind |-> "sql", w |-> i, sig |-> "finished",
                               val |-> sql])
    /\ UNCHANGED <<run_btn, voice_btn, save_btn, is_recording, input_edit,
                   output_edit, status_lbl, dialog, audio_workers>>

\* SQLWorker.run: text_to_sql raises, error is emitted with str(e)
sql_run_error(i, msg) ==
    /\ i \in DOMAIN sql_workers
    /\ sql_workers[i].st = "running"
    /\ sql_workers' = [sql_workers EXCEPT ![i].st = "emitted",
                                          ![i].emits = @ + 1]
    /\ queue' = Append(queue, [kind |-> "sql", w |-> i, sig |-> "error",
                               val |-> msg])
    /\ UNCHANGED <<run_btn, voice_btn, save_btn, is_recording, input_edit,
                   output_edit, status_lbl, dialog, audio_workers>>

\* ProcessAudioWorker.run: recognize_google returns text
audio_run_finished(i, text) ==
    /\ i \in DOMAIN audio_workers
    /\ audio_workers[i].st = "running"
    /\ audio_workers' = [audio_workers EXCEPT ![i].st = "emitted"]
    /\ queue' = Append(queue, [kind |-> "audio", w |-> i, sig |-> "finished",
                               val |-> text])
    /\ UNCHANGED <<run_btn, voice_btn, save_btn, is_recording, input_edit,
                   output_edit, status_lbl, dialog, sql_workers>>

\* ProcessAudioWorker.run: recognize_google raises
audio_run_error(i, msg) ==
    /\ i \in DOMAIN audio_workers
    /\ audio_workers[i].st = "running"
    /\ audio_workers' = [audio_workers EXCEPT ![i].st = "emitted"]
    /\ queue' = Append(queue, [kind |-> "audio", w |-> i, sig |-> "error",
                               val |-> msg])
    /\ UNCHANGED <<run_btn, voice_btn, save_btn, is_recording, input_edit,
                   output_edit, status_lbl, dialog, sql_workers>>

\* The signal the GUI thread handles next is of this kind.
NextSignal(kind, sig) ==
    /\ queue # <<>>
    /\ Head(queue).kind = kind
    /\ Head(queue).sig = sig

\* _on_sql_ready(sql)
on_sql_ready ==
    /\ NextSignal("sql", "finished")
    /\ output_edit' = Head(queue).val
    /\ set_ready(FALSE)
    /\ sql_workers' = [sql_workers EXCEPT ![Head(queue).w].st = "done"]
    /\ queue' = Tail(queue)
    /\ UNCHANGED <<is_recording, input_edit, dialog, audio_workers>>

\* on_sql_error leaving the buttons as they are.
on_sql_error_stays_busy ==
    /\ NextSignal("sql", "error")
    /\ status_lbl' = "Error."
    /\ dialog' = "Generation Error"
    /\ sql_workers' = [sql_workers EXCEPT ![Head(queue).w].st = "done"]
    /\ queue' = Tail(queue)
    /\ UNCHANGED <<run_btn, voice_btn, save_btn, is_recording, input_edit,
                   output_edit, audio_workers>>

\* _on_sql_error(msg)
on_sql_error ==
    /\ NextSignal("sql", "error")
    /\ set_ready(TRUE)
    /\ dialog' = "Generation Error"
    /\ sql_workers' = [sql_workers EXCEPT ![Head(queue).w].st = "done"]
    /\ queue' = Tail(queue)
    /\ UNCHANGED <<is_recording, input_edit, output_edit, audio_workers>>

\* on_record_toggle, clicked on the enabled voice_btn
on_record_toggle ==
    /\ voice_btn
    /\ IF ~is_recording
       THEN /\ Len(audio_workers) < MaxAudioWorkers
            /\ is_recording' = TRUE
            /\ set_busy_rec("Recording")
            /\ UNCHANGED audio_workers
       ELSE /\ is_recording' = FALSE
            /\ status_lbl' = "Transcribing"
            /\ audio_workers' = Append(audio_workers, [st |-> "running"])
            /\ UNCHANGED <<run_btn, voice_btn, save_btn>>
    /\ UNCHANGED <<input_edit, output_edit, dialog, sql_workers, queue>>

\* _on_record_ready(text)
on_record_ready ==
    /\ NextSignal("audio", "finished")
    /\ input_edit' = Head(queue).val
    /\ set_ready(FALSE)
    /\ audio_workers' = [audio_workers EXCEPT ![Head(queue).w].st = "done"]
    /\ queue' = Tail(queue)
    /\ UNCHANGED <<is_recording, output_edit, dialog, sql_workers>>

\* _on_record_error(msg)
on_record_error ==
    /\ NextSignal("audio", "error")
    /\ set_ready(TRUE)
    /\ dialog' = "Speech Error"
    /\ audio_workers' = [audio_workers EXCEPT ![Head(queue).w].st = "done"]
    /\ queue' = Tail(queue)
    /\ UNCHANGED <<is_recording, input_edit, output_edit, sql_workers>>

\* on_save, clicked on the enabled save_btn, a file being chosen when there
\* is something to save
on_save ==
    /\ save_btn
    /\ IF Strip(output_edit) = <<>>
       THEN dialog' = "Nothing to Save" /\ UNCHANGED status_lbl
       ELSE status_lbl' = "Saved" /\ UNCHANGED dialog
    /\ UNCHANGED <<run_btn, voice_btn, save_btn, is_recording, input_edit,
                   output_edit, sql_workers, audio_workers, queue>>

\* An SQLWorker thread comes to the end of run.
SqlWorkerEnds ==
    \E i \in 1..MaxSqlWorkers :
        \/ \E sql \in SqlResults : sql_run_finished(i, sql)
        \/ \E msg \in ErrorTexts : sql_run_error(i, msg)

\* The event loop of the GUI thread runs the slot of the next queued signal.
SlotRuns == on_sql_ready \/ on_sql_error \/ on_record_ready \/ on_record_error

NextGui ==
    \/ (\E t \in TypedInputs : TypeInput(t)) /\ UNCHANGED outsideGui
    \/ on_convert /\ UNCHANGED outsideGui
    \/ (\E i \in 1..MaxSqlWorkers : \E sql \in SqlResults :
            sql_run_finished(i, sql)) /\ UNCHANGED outsideGui
    \/ (\E i \in 1..MaxSqlWorkers : \E msg \in ErrorTexts :
            sql_run_error(i, msg)) /\ UNCHANGED outsideGui
    \/ (\E i \in 1..MaxAudioWorkers : \E text \in Transcripts :
            audio_run_finished(i, text)) /\ UNCHANGED outsideGui
    \/ (\E i \in 1..MaxAudioWorkers : \E msg \in ErrorTexts :
            audio_run_error(i, msg)) /\ UNCHANGED outsideGui
    \/ on_sql_ready /\ UNCHANGED outsideGui
    \/ on_sql_error /\ UNCHANGED outsideGui
    \/ on_record_toggle /\ UNCHANGED outsideGui
    \/ on_record_ready /\ UNCHANGED outsideGui
    \/ on_record_error /\ UNCHANGED outsideGui
    \/ on_save /\ UNCHANGED outsideGui

\* text_to_sql returns or raises, so run comes to its end; the event loop
\* keeps running the slots of queued signals.
SpecGui ==
    /\ InitGui
    /\ [][NextGui]_vars
    /\ WF_vars(SqlWorkerEnds /\ UNCHANGED outsideGui)
    /\ WF_vars(SlotRuns /\ UNCHANGED outsideGui)

-----------------------------------------------------------------------------
(* Properties of the desktop interface, under SpecGui *)

\* The SQLWorker threads inside run: text_to_sql is executing.
RunningSql == {i \in DOMAIN sql_workers : sql_workers[i].st = "running"}

\* C13: at most one SQLWorker is running at any time, and the Convert
\* button is disabled for as long as one is.
C13_OneSqlWorker ==
    /\ Cardinality(RunningSql) <= 1
    /\ RunningSql # {} => ~run_btn

\* C14: while a recording is in progress Convert and Save are disabled and
\* the record button is enabled.
C14_RecordingLocksButtons ==
    is_recording => ~run_btn /\ ~save_btn /\ voice_btn

\* The GUI thread runs the slot of a signal of an SQLWorker in this step.
SqlSlotStep == queue # <<>> /\ Head(queue).kind = "sql" /\ queue' = Tail(queue)

\* C15: every SQLWorker, started by a Convert click with a non-empty
\* prompt, emits exactly one signal, finished or error, and its slot runs in
\* the end: finished puts its text into the output field, error leaves the
\* field as it is, and either enables the three buttons; a Convert click
\* with an empty prompt starts no worker and changes no button.
C15_ConvertOutcome ==
    /\ [](\A i \in DOMAIN sql_workers :
             /\ sql_workers[i].prompt # <<>>
             /\ sql_workers[i].emits <= 1
             /\ sql_workers[i].st \in {"emitted", "done"}
                    => sql_workers[i].emits = 1)
    /\ [][/\ SqlSlotStep =>
                /\ run_btn' /\ voice_btn' /\ save_btn'
                /\ Head(queue).sig = "finished"
                       => output_edit' = Head(queue).val
                /\ Head(queue).sig = "error" => output_edit' = output_edit
                /\ sql_workers'[Head(queue).w].st = "done"
          /\ Len(sql_workers') > Len(sql_workers) => Strip(input_edit) # <<>>
          /\ dialog' = "Input Required" /\ dialog # "Input Required" =>
                UNCHANGED <<run_btn, voice_btn, save_btn, sql_workers,
                            queue>>]_vars
    /\ \A i \in 1..MaxSqlWorkers :
          (Len(sql_workers) >= i) ~>
              (Len(sql_workers) >= i /\ sql_workers[i].st = "done")

\* The slot of an error signal has run: the output field still holds the
\* text of an earlier finished signal and the buttons are enabled.
C15_Witness ==
    /\ Len(sql_workers) = 2
    /\ sql_workers[1].st = "done" /\ sql_workers[2].st = "done"
    /\ dialog = "Generation Error"
    /\ status_lbl = "Error."
    /\ output_edit = <<"s">>
    /\ run_btn /\ voice_btn /\ save_btn

-----------------------------------------------------------------------------
(* AudioRecorder of gui_fr.py: start() and stop(), called in turn by the   *)
(* GUI thread and run statement by statement, beside the _record threads   *)
(* that start() spawns. Nothing orders the statements of the two.          *)

\* Calls of start() in one run.
MaxStarts == 2

\* Frames read from the streams in one run.
MaxReads == 3

\* AudioRecorder.__init__
InitRecorder ==
    /\ PipelineOff
    /\ ProcessOff
    /\ HarnessOff
    /\ GuiOff
    /\ recording = FALSE
    /\ stream = 0
    /\ frames = <<>>
    /\ rec_pc = "idle"
    /\ rec_threads = <<>>
    /\ closed = {}
    /\ starts = 0
    /\ reads = <<>>
    /\ bad_read = FALSE
    /\ returned = NoAudio

\* start(): self.frames = []
start_frames ==
    /\ rec_pc = "idle"
    /\ starts < MaxStarts
    /\ starts' = starts + 1
    /\ frames' = <<>>
    /\ reads' = <<>>
    /\ rec_pc' = "start_open"
    /\ UNCHANGED <<recording, stream, rec_threads, closed, bad_read, returned>>

\* start(): self.stream = self.p.open(...)
start_open ==
    /\ rec_pc = "start_open"
    /\ stream' = starts
    /\ rec_pc' = "start_flag"
    /\ UNCHANGED <<recording, frames, rec_threads, closed, starts, reads,
                   bad_read, returned>>

\* start(): self.recording = True
start_flag ==
    /\ rec_pc = "start_flag"
    /\ recording' = TRUE
    /\ rec_pc' = "start_thread"
    /\ UNCHANGED <<stream, frames, rec_threads, closed, starts, reads,
                   bad_read, returned>>

\* start(): threading.Thread(target=self._record, daemon=True).start()
start_thread ==
    /\ rec_pc = "start_thread"
    /\ rec_threads' = Append(rec_threads,
                             [pc |-> "loop", strm |-> 0, data |-> <<>>])
    /\ rec_pc' = "started"
    /\ UNCHANGED <<recording, stream, frames, closed, starts, reads,
                   bad_read, returned>>

\* stop(): self.recording = False
stop_flag ==
    /\ rec_pc = "started"
    /\ recording' = FALSE
    /\ rec_pc' = "stop_close"
    /\ UNCHANGED <<stream, frames, rec_threads, closed, starts, reads,
                   bad_read, returned>>

\* stop(): if self.stream: stop_stream() and close()
stop_close ==
    /\ rec_pc = "stop_close"
    /\ closed' = IF stream # 0 THEN closed \cup {stream} ELSE closed
    /\ rec_pc' = IF stream # 0 THEN "stop_none" ELSE "stop_join"
    /\ UNCHANGED <<recording, stream, frames, rec_threads, starts, reads,
                   bad_read, returned>>

\* stop(): self.stream = None
stop_none ==
    /\ rec_pc = "stop_none"
    /\ stream' = 0
    /\ rec_pc' = "stop_join"
    /\ UNCHANGED <<recording, frames, rec_threads, closed, starts, reads,
                   bad_read, returned>>

\* stop(): raw = b"".join(self.frames), returned as the audio
stop_join ==
    /\ rec_pc = "stop_join"
    /\ returned' = [audio |-> frames, read |-> reads]
    /\ rec_pc' = "idle"
    /\ UNCHANGED <<recording, stream, frames, rec_threads, closed, starts,
                   reads, bad_read>>

\* _record: while self.recording
record_check(t) ==
    /\ t \in DOMAIN rec_threads
    /\ rec_threads[t].pc = "loop"
    /\ rec_threads' = [rec_threads EXCEPT
                         ![t].pc = IF recording THEN "read" ELSE "exited"]
    /\ UNCHANGED <<recording, stream, frames, rec_pc, closed, starts, reads,
                   bad_read, returned>>

\* _record: self.stream.read is called: on None it raises AttributeError,
\* on a closed stream OSError, and either ends the thread; on an open stream
\* the thread blocks in the read
record_read(t) ==
    /\ t \in DOMAIN rec_threads
    /\ rec_threads[t].pc = "read"
    /\ Len(reads) < MaxReads
    /\ IF stream = 0 \/ stream \in closed
       THEN /\ bad_read' = TRUE
            /\ rec_threads' = [rec_threads EXCEPT ![t].pc = "raised"]
       ELSE /\ rec_threads' = [rec_threads EXCEPT ![t].pc = "reading",
                                                  ![t].strm = stream]
            /\ UNCHANGED bad_read
    /\ UNCHANGED <<recording, stream, frames, rec_pc, closed, starts, reads,
                   returned>>

\* _record: the blocking read returns a frame
record_read_returns(t) ==
    /\ t \in DOMAIN rec_threads
    /\ rec_threads[t].pc = "reading"
    /\ rec_threads' = [rec_threads EXCEPT
                         ![t].pc = "append",
                         ![t].data = <<rec_threads[t].strm, Len(reads) + 1>>]
    /\ reads' = Append(reads, <<rec_threads[t].strm, Len(reads) + 1>>)
    /\ bad_read' = (bad_read \/ rec_threads[t].strm \in closed)
    /\ UNCHANGED <<recording, stream, frames, rec_pc, closed, starts,
                   returned>>

\* _record: the stream was closed under the blocking read, which raises
record_read_raises(t) ==
    /\ t \in DOMAIN rec_threads
    /\ rec_threads[t].pc = "reading"
    /\ rec_threads[t].strm \in closed
    /\ rec_threads' = [rec_threads EXCEPT ![t].pc = "raised"]
    /\ bad_read' = TRUE
    /\ UNCHANGED <<recording, stream, frames, rec_pc, closed, starts, reads,
                   returned>>

\* _record: self.frames.append(data)
record_append(t) ==
    /\ t \in DOMAIN rec_threads
    /\ rec_threads[t].pc = "append"
    /\ frames' = Append(frames, rec_threads[t].data)
    /\ rec_threads' = [rec_threads EXCEPT ![t].pc = "loop"]
    /\ UNCHANGED <<recording, stream, rec_pc, closed, starts, reads, bad_read,
                   returned>>

NextRecorder ==
    \/ start_frames /\ UNCHANGED outsideRecorder
    \/ start_open /\ UNCHANGED outsideRecorder
    \/ start_flag /\ UNCHANGED outsideRecorder
    \/ start_thread /\ UNCHANGED outsideRecorder
    \/ stop_flag /\ UNCHANGED outsideRecorder
    \/ stop_close /\ UNCHANGED outsideRecorder
    \/ stop_none /\ UNCHANGED outsideRecorder
    \/ stop_join /\ UNCHANGED outsideRecorder
    \/ (\E t \in 1..MaxStarts : record_check(t)) /\ UNCHANGED outsideRecorder
    \/ (\E t \in 1..MaxStarts : record_read(t)) /\ UNCHANGED outsideRecorder
    \/ (\E t \in 1..MaxStarts : record_read_returns(t))
          /\ UNCHANGED outsideRecorder
    \/ (\E t \in 1..MaxStarts : record_read_raises(t))
          /\ UNCHANGED outsideRecorder
    \/ (\E t \in 1..MaxStarts : record_append(t)) /\ UNCHANGED outsideRecorder

SpecRecorder == InitRecorder /\ [][NextRecorder]_vars

-----------------------------------------------------------------------------
(* Properties of AudioRecorder, under SpecRecorder *)

\* The _record threads that passed "while self.recording" and are reading
\* or about to append.
Appending ==
    {t \in DOMAIN rec_threads : rec_threads[t].pc \in {"read", "reading", "append"}}

\* No _record thread has read from a closed stream or from None.
NoClosedRead == ~bad_read

\* At most one _record thread is past the loop test.
OneAppender == Cardinality(Appending) <= 1

\* What stop() returned is what had been read since the last start().
ExactAudio == returned.audio = returned.read

\* C16: no _record thread reads from a stream that stop() has closed or set
\* to None, at most one _record thread is appending frames at any time, and
\* what stop() returns is exactly the frames read since the most recent
\* start().
C16_RecorderSafe ==
    /\ NoClosedRead
    /\ OneAppender
    /\ ExactAudio

=============================================================================
